---- MODULE Spec2Model ----
(***************************************************************************)
(* The incremental geo-grid crawler of apiPlayground:                      *)
(*   src/src/export_google_places_plateau.py       (plateau crawler)       *)
(*   src/src/export_google_places_1000_per_city.py (1000-per-city crawler) *)
(*   src/src/fill_zip_from_place_details.py        (postal code filler)    *)
(* The store is the SQLite table `restaurants`, kept as the sequence of    *)
(* its rows in rowid order.  A place_id is a natural number; 0 stands for  *)
(* a missing or empty place_id (any value Python treats as false).         *)
(* Spec and SpecPlateau take the result list of a grid point as a whole,   *)
(* SpecCrawl runs both scripts request by request, SpecUpsert and          *)
(* SpecBatch call the write functions on their own, the latter statement   *)
(* by statement.  SpecGrid runs the grid generator point by point and      *)
(* SpecZip the postal code filler fetch by fetch.                          *)
(***************************************************************************)
EXTENDS Integers, Sequences, FiniteSets, TLC

\* ------------------------------------------------------------------------
\* Program constants (export_google_places_plateau.py)
\* ------------------------------------------------------------------------
WINDOW == 50
STABLE_WINDOWS == 5
MIN_POINTS_BEFORE_PLATEAU == 80
\* MIN_NEW_AVG = 0.5, kept as the fraction MIN_NEW_AVG_NUM / MIN_NEW_AVG_DEN
MIN_NEW_AVG_NUM == 1
MIN_NEW_AVG_DEN == 2

\* ------------------------------------------------------------------------
\* Bounds of the model
\* ------------------------------------------------------------------------
\* longest result list of one grid point under the free provider
MaxBatch == 2
\* grid points per region under the free provider
ShortGrid == 2
\* grid points per region under the scripted providers
LongGrid == 140
\* times the process is started again after an interruption
MaxRestarts == 1
\* last value of the store's clock (seconds) when the upsert functions are
\* called on their own
MaxClock == 1
\* calls of the upsert harness
MaxOps == 2

\* the first regions of CITIES, in the order of the dict
CITIES == <<"San Francisco", "Los Angeles">>

None == "None"

\* place_ids the free provider draws from; 0 is a missing place_id
PlaceIdPool == {0, 1, 2}

\* descriptive fields of a provider result: name stands for every column
\* copied verbatim (name, lat, lng, rating, ...)
Variants ==
    { [name |-> "n1", vicinity |-> "v1",  formatted_address |-> None],
      [name |-> "n2", vicinity |-> None,  formatted_address |-> "f2"] }

Place(pid, v) ==
    [place_id |-> pid, name |-> v.name, vicinity |-> v.vicinity,
     formatted_address |-> v.formatted_address]

\* the fields the provider reports in the first run of the process, and in
\* the runs after it
VariantAt(run) ==
    CHOOSE v \in Variants : v.name = (IF run = 0 THEN "n1" ELSE "n2")

\* results the free provider draws from in a run
AnyPlaces(run) == { Place(pid, VariantAt(run)) : pid \in PlaceIdPool }

\* new places the one dense point of the "burst" provider returns: one, and
\* the two numbers that put the mean of a window just below and exactly at
\* MIN_NEW_AVG
BurstYields ==
    {1, (WINDOW * MIN_NEW_AVG_NUM) \div MIN_NEW_AVG_DEN - 1,
        (WINDOW * MIN_NEW_AVG_NUM) \div MIN_NEW_AVG_DEN}

\* places per point of the "const" provider
ConstYields == {1, 3}

\* the "every" provider returns k new places at every period-th point
EveryYields == {1, 2}
EveryPeriods == {2, 3, 5}

VARIABLES
    pc,           \* "start" | "crawl" | "plateau" | "done" | "killed" | "idle"
                  \* | "exec" | "commit" | "raised" | "crashed"
    cityIdx,      \* index into CITIES of the region being crawled
    store,        \* rows of table restaurants, in rowid order
    clock,        \* CURRENT_TIMESTAMP of the store
    seen,         \* main: seen
    recent,       \* main: recent, a deque(maxlen=WINDOW)
    recentAt,     \* history: the points_done at which each entry of recent was appended
    stable_hits,  \* main: stable_hits
    points_done,  \* main: points_done
    results,      \* main: results of the last fetch_nearby
    new_places,   \* main: new_places of the last point
    written,      \* main: written of the last point
    feed,         \* the provider the run talks to
    bursts,       \* dense points the "burst" provider has returned
    restarts,     \* times the process was started again
    places,       \* harness: the batch of the last upsert call
    prevStore,    \* harness: the store before the last upsert call
    ops,          \* harness: upsert calls made
    repeated,     \* harness: the last call repeated the call before it
    script,       \* which crawl script runs: "plateau" | "target"
    fpc,          \* fetch_nearby: "idle" | "get" | "returned" | "raised"
    site,         \* fetch_nearby: the request being made
    page,         \* fetch_nearby: the index of the for loop
    next_token,   \* fetch_nearby: next_token is set
    all_results,  \* fetch_nearby: all_results
    attempts,     \* safe_get: failed attempts of the request made last
    data,         \* fetch_nearby: data, the body of the last answer
    slept,        \* the sleeps since the last attempt of a request
    outcome,      \* what the last fetch_nearby handed to main, and why
    prev,         \* what the fetch_nearby before it handed to main, and why
    txn,          \* the connection's open transaction: the rows it sees
    todo,         \* executemany: the rows not yet executed
    err,          \* the exception the last call of the harness raised
    bbox,         \* grid_points: bbox
    step_m,       \* grid_points: step_m
    lat,          \* grid_points: lat
    lng,          \* grid_points: lng
    emitted,      \* the points the generator has yielded in this run
    firstRun,     \* the points it yielded in the run before
    gpc,          \* grid_points: "idle" | "call" | "row" | "col" | "again" | "end"
    total,        \* fill_zip main: total
    rowIdx,       \* fill_zip main: i
    retry,        \* fill_zip main: retry
    backoff,      \* fill_zip main: backoff
    updated,      \* fill_zip main: updated
    skipped,      \* fill_zip main: skipped
    over_limit_hits, \* fill_zip main: over_limit_hits
    fetches,      \* calls of fetch_details made for the row at hand
    filled,       \* rows whose postal_code the connection has set
    saved,        \* rows whose postal_code is committed
    zpc           \* fill_zip main: "idle" | "loop" | "fetch" | "done" | "exit2"

vars == <<pc, cityIdx, store, clock, seen, recent, recentAt, stable_hits,
          points_done, results, new_places, written, feed, bursts, restarts,
          places, prevStore, ops, repeated, script, fpc, site, page,
          next_token, all_results, attempts, data, slept, outcome, prev,
          txn, todo, err, bbox, step_m, lat, lng, emitted, firstRun, gpc,
          total, rowIdx, retry, backoff, updated, skipped, over_limit_hits,
          fetches, filled, saved, zpc>>

\* the state of the grid generator
gridVars == <<bbox, step_m, lat, lng, emitted, firstRun, gpc>>

\* the state of main of fill_zip_from_place_details.py
zipVars == <<total, rowIdx, retry, backoff, updated, skipped, over_limit_hits,
             fetches, filled, saved, zpc>>

\* the state of a call of fetch_nearby and of a batch write, and the state
\* of the programs the crawl loop does not run
callVars == <<script, fpc, site, page, next_token, all_results, attempts,
              data, slept, outcome, prev, txn, todo, err, gridVars, zipVars>>

\* ------------------------------------------------------------------------
\* Requests and delays; delays are in tenths of a second
\* ------------------------------------------------------------------------
max_tries == 6
max_pages == 3
REQUEST_SLEEP == 8
TARGET_REQUEST_SLEEP == 2
TOKEN_SLEEP == 20
RETRY_SLEEP == 20
API_ERROR_SLEEP == 20
BACKOFF_CAP == 30

\* largest coordinate of a bounding box, in the unit of meters_to_lat
MaxCoord == 2
\* largest step_m
MaxStep == 2
\* rows fill_zip selects
MaxRows == 2
\* stands for BATCH_COMMIT = 200 of fill_zip, scaled to the rows selected
BatchCommit == 2
\* fill_zip line 20
MAX_RETRIES == 6

\* stands for TARGET_PER_CITY = 1000 of the 1000-per-city crawler, scaled to
\* the places the provider of the model knows
TargetPerCity == 2

\* ------------------------------------------------------------------------
\* Helpers
\* ------------------------------------------------------------------------
RECURSIVE SumSeq(_)
SumSeq(s) == IF s = <<>> THEN 0 ELSE Head(s) + SumSeq(Tail(s))

RECURSIVE SeqsUpTo(_, _)
SeqsUpTo(S, n) ==
    IF n = 0 THEN {<<>>}
    ELSE LET shorter == SeqsUpTo(S, n - 1)
         IN  shorter \cup { Append(s, x) : s \in { t \in shorter : Len(t) = n - 1 }, x \in S }

Range(s) == { s[i] : i \in 1..Len(s) }

MaxOf(S) == IF S = {} THEN 0 ELSE CHOOSE x \in S : \A y \in S : y <= x

\* ------------------------------------------------------------------------
\* The store
\* ------------------------------------------------------------------------
\* the row insert_places / upsert_places builds from one provider result;
\* the statements of one executemany run within one second of the clock
RowOf(city, p, now) ==
    [city |-> city,
     place_id |-> p.place_id,
     name |-> p.name,
     address |-> IF p.vicinity # None THEN p.vicinity ELSE p.formatted_address,
     raw_json |-> p,
     fetched_at |-> now]

SameKey(r, row) == r.city = row.city /\ r.place_id = row.place_id

\* mutant: INSERT OR IGNORE, the row of an existing key is kept as it is
InsertOrIgnore(db, row) ==
    IF \E i \in 1..Len(db) : SameKey(db[i], row) THEN db ELSE Append(db, row)

\* mutant: a table without the primary key, every statement adds a row
InsertAlways(db, row) == Append(db, row)

\* mutant: the conflict target is place_id alone
UpsertByPlaceId(db, row) ==
    IF \E i \in 1..Len(db) : db[i].place_id = row.place_id
    THEN [i \in 1..Len(db) |->
            IF db[i].place_id = row.place_id
            THEN [row EXCEPT !.city = db[i].city] ELSE db[i]]
    ELSE Append(db, row)

\* mutant: the conflict target is place_id alone and city is among the
\* columns the update sets
UpsertRekey(db, row) ==
    IF \E i \in 1..Len(db) : db[i].place_id = row.place_id
    THEN [i \in 1..Len(db) |->
            IF db[i].place_id = row.place_id THEN row ELSE db[i]]
    ELSE Append(db, row)

\* one execution of INSERT ... ON CONFLICT(city, place_id) DO UPDATE SET ...
UpsertRow(db, row) ==
    IF \E i \in 1..Len(db) : SameKey(db[i], row)
    THEN [i \in 1..Len(db) |-> IF SameKey(db[i], row) THEN row ELSE db[i]]
    ELSE Append(db, row)

\* executemany: the statement once per row, in order
RECURSIVE ExecuteMany(_, _)
ExecuteMany(db, rows) ==
    IF rows = <<>> THEN db
    ELSE ExecuteMany(UpsertRow(db, Head(rows)), Tail(rows))

RowsOf(city, ps, now) == [i \in 1..Len(ps) |-> RowOf(city, ps[i], now)]

\* insert_places(conn, city, places): the store after it and the value returned
insert_places(db, city, ps, now) ==
    IF ps = <<>> THEN [store |-> db, written |-> 0]
    ELSE [store |-> ExecuteMany(db, RowsOf(city, ps, now)), written |-> Len(ps)]

\* upsert_places(conn, city, places) of the 1000-per-city crawler
upsert_places(db, city, ps, now) == ExecuteMany(db, RowsOf(city, ps, now))

\* mutant: the seen-set starts empty instead of being loaded
LoadNothing(db, city) == {}

load_existing_ids(db, city) ==
    { db[i].place_id : i \in { j \in 1..Len(db) : db[j].city = city } }


\* the rows of a region: WHERE city=?
RowsOfCity(db, city) == { i \in 1..Len(db) : db[i].city = city }

count_city(db, city) == Cardinality(RowsOfCity(db, city))

\* ------------------------------------------------------------------------
\* main: the loop body of one grid point
\* ------------------------------------------------------------------------
\* mutant: the ids of the batch are added to seen only after the loop
DedupLateAdd(rs, S, acc) ==
    LET keep == { i \in 1..Len(rs) : rs[i].place_id # 0 /\ rs[i].place_id \notin S }
        F[i \in 0..Len(rs)] ==
            IF i = 0 THEN acc
            ELSE IF i \in keep THEN Append(F[i - 1], rs[i]) ELSE F[i - 1]
    IN  [seen |-> S \cup { rs[i].place_id : i \in keep }, new_places |-> F[Len(rs)]]

\* mutant: the membership test against seen is left out
RECURSIVE DedupIgnoresSeen(_, _, _)
DedupIgnoresSeen(rs, S, acc) ==
    IF rs = <<>> THEN [seen |-> S, new_places |-> acc]
    ELSE LET p == Head(rs)
             pid == p.place_id
         IN  IF pid # 0
             THEN DedupIgnoresSeen(Tail(rs), S \cup {pid}, Append(acc, p))
             ELSE DedupIgnoresSeen(Tail(rs), S, acc)

\* lines 266-271: partition the results into already seen and new
RECURSIVE Dedup(_, _, _)
Dedup(rs, S, acc) ==
    IF rs = <<>> THEN [seen |-> S, new_places |-> acc]
    ELSE LET p == Head(rs)
             pid == p.place_id
         IN  IF pid # 0 /\ pid \notin S
             THEN Dedup(Tail(rs), S \cup {pid}, Append(acc, p))
             ELSE Dedup(Tail(rs), S, acc)

\* mutant: a plain list in place of the bounded deque
UnboundedAppend(dq, x) == Append(dq, x)

\* deque(maxlen=WINDOW).append
DequeAppend(dq, x) ==
    IF Len(dq) = WINDOW THEN Append(Tail(dq), x) ELSE Append(dq, x)

\* mutant: no reset at the warm-up boundary
NeverReset(pd) == FALSE

\* mutant: the reset one point before the warm-up boundary
ResetOnePointEarly(pd) == pd = MIN_POINTS_BEFORE_PLATEAU - 1

\* lines 279-281: the reset at the warm-up boundary
WarmupReset(pd) == pd = MIN_POINTS_BEFORE_PLATEAU

\* mutant: avg_new <= MIN_NEW_AVG
LowYieldInclusive(dq) == SumSeq(dq) * MIN_NEW_AVG_DEN <= MIN_NEW_AVG_NUM * Len(dq)

\* mutant: avg_new computed by integer division
LowYieldFloorDiv(dq) == (SumSeq(dq) \div Len(dq)) * MIN_NEW_AVG_DEN < MIN_NEW_AVG_NUM

\* line 297: avg_new < MIN_NEW_AVG, with avg_new = sum(recent) / len(recent)
LowYield(dq) == SumSeq(dq) * MIN_NEW_AVG_DEN < MIN_NEW_AVG_NUM * Len(dq)

\* mutant: the warm-up is not looked at when the window is full
NoWarmup(pd) == FALSE

\* line 294: the window is full before the warm-up is over
InWarmup(pd) == pd < MIN_POINTS_BEFORE_PLATEAU

\* lines 277-304: the plateau detector fed the yield n of one point
Observe(dq, hits, pd0, n) ==
    LET pd   == pd0 + 1
        base == IF WarmupReset(pd) THEN <<>> ELSE dq
        h0   == IF WarmupReset(pd) THEN 0 ELSE hits
        dq1  == DequeAppend(base, n)
        h1   == IF Len(dq1) = WINDOW
                THEN IF InWarmup(pd) THEN 0
                     ELSE IF LowYield(dq1) THEN h0 + 1 ELSE 0
                ELSE h0
        stop == Len(dq1) = WINDOW /\ ~InWarmup(pd) /\ h1 >= STABLE_WINDOWS
    IN  [recent |-> dq1, stable_hits |-> h1, points_done |-> pd, stop |-> stop]

\* the history of recent: the same deque, holding point numbers
ObserveAt(dqAt, pd0) ==
    DequeAppend(IF WarmupReset(pd0 + 1) THEN <<>> ELSE dqAt, pd0 + 1)

City == CITIES[cityIdx]

\* ids no region has seen: k fresh places
KnownIds == { store[i].place_id : i \in 1..Len(store) } \cup seen
Fresh(k) ==
    [i \in 1..k |-> Place(MaxOf(KnownIds) + i, VariantAt(restarts))]

\* the number of grid points grid_points yields for a region
GridLen == IF feed.kind \in {"any", "const", "pages"} THEN ShortGrid ELSE LongGrid

\* the result lists of the free provider: in the first run, in a later run
FirstRunResults == SeqsUpTo(AnyPlaces(0), MaxBatch)
LaterRunResults == SeqsUpTo(AnyPlaces(1), MaxBatch)
AnyResults(run) == IF run = 0 THEN FirstRunResults ELSE LaterRunResults

\* the result lists fetch_nearby may return for the next point
FetchResults ==
    CASE feed.kind = "any"   -> AnyResults(restarts)
      [] feed.kind = "const" -> {Fresh(feed.k)}
      [] feed.kind = "zeros" -> {<<>>}
      [] feed.kind = "every" ->
            {Fresh(IF (points_done + 1) % feed.period = 0 THEN feed.k ELSE 0)}
      [] feed.kind = "burst" ->
            {<<>>} \cup (IF bursts = 0
                         THEN { Fresh(k) : k \in BurstYields } ELSE {})

HarnessIdle == /\ places = <<>>
               /\ prevStore = <<>>
               /\ ops = 0
               /\ repeated = FALSE

\* no call of fetch_nearby was made yet and no transaction is open
NoOutcome == [kind |-> "none", value |-> <<>>, cause |-> "none"]

\* no answer was received yet
NoData == [status |-> None, results |-> <<>>, token |-> FALSE]

\* the grid generator and fill_zip are not running
NoBox == [lat_min |-> 0, lat_max |-> 0, lng_min |-> 0, lng_max |-> 0]

GridIdle ==
    /\ bbox = NoBox
    /\ step_m = 0
    /\ lat = 0
    /\ lng = 0
    /\ emitted = <<>>
    /\ firstRun = [done |-> FALSE, points |-> <<>>]
    /\ gpc = "idle"

ZipIdle ==
    /\ total = 0
    /\ rowIdx = 0
    /\ retry = 0
    /\ backoff = 1
    /\ updated = 0
    /\ skipped = 0
    /\ over_limit_hits = 0
    /\ fetches = 0
    /\ filled = {}
    /\ saved = {}
    /\ zpc = "idle"

CallIdle(sc) ==
    /\ script = sc
    /\ fpc = "idle"
    /\ site = "first"
    /\ page = 0
    /\ next_token = FALSE
    /\ all_results = <<>>
    /\ attempts = 0
    /\ data = NoData
    /\ slept = <<>>
    /\ outcome = NoOutcome
    /\ prev = NoOutcome
    /\ txn = <<>>
    /\ todo = <<>>
    /\ err = None

InitRunOf(f, sc) ==
    /\ pc = "start"
    /\ cityIdx = 1
    /\ store = <<>>
    /\ clock = 0
    /\ seen = {}
    /\ recent = <<>>
    /\ recentAt = <<>>
    /\ stable_hits = 0
    /\ points_done = 0
    /\ results = <<>>
    /\ new_places = <<>>
    /\ written = 0
    /\ feed = f
    /\ bursts = 0
    /\ restarts = 0
    /\ HarnessIdle
    /\ CallIdle(sc)
    /\ GridIdle
    /\ ZipIdle

\* a run of the plateau crawler
InitRun(f) == InitRunOf(f, "plateau")

Feed(kd, k, period) == [kind |-> kd, k |-> k, period |-> period]

FreeFeeds == {Feed("any", 0, 0)} \cup { Feed("const", k, 1) : k \in ConstYields }

ScriptedFeeds ==
    {Feed("zeros", 0, 0), Feed("burst", 0, 0)}
        \cup { Feed("every", k, n) : k \in EveryYields, n \in EveryPeriods }

Init == \E f \in FreeFeeds : InitRun(f)

InitPlateau == \E f \in ScriptedFeeds : InitRun(f)

\* mutant: the window and stable_hits of the region before are kept
StartRegionKeepsDetector ==
    /\ pc = "start"
    /\ pc' = "crawl"
    /\ seen' = load_existing_ids(store, City)
    /\ points_done' = 0
    /\ UNCHANGED <<recent, recentAt, stable_hits>>
    /\ UNCHANGED <<cityIdx, store, clock, results, new_places, written, feed,
                   bursts, restarts, places, prevStore, ops, repeated>>
    /\ UNCHANGED callVars

\* lines 251-261: a region starts
StartRegion ==
    /\ pc = "start"
    /\ pc' = "crawl"
    /\ seen' = load_existing_ids(store, City)
    /\ recent' = <<>>
    /\ recentAt' = <<>>
    /\ stable_hits' = 0
    /\ points_done' = 0
    /\ UNCHANGED <<cityIdx, store, clock, results, new_places, written, feed,
                   bursts, restarts, places, prevStore, ops, repeated>>
    /\ UNCHANGED callVars

\* lines 266-304: what main does with the results of one grid point
PointBody(rs) ==
    LET d   == Dedup(rs, seen, <<>>)
        ins == insert_places(store, City, d.new_places, clock)
        o   == Observe(recent, stable_hits, points_done, Len(d.new_places))
    IN  /\ results' = rs
        /\ seen' = d.seen
        /\ new_places' = d.new_places
        /\ store' = ins.store
        /\ written' = ins.written
        /\ recent' = o.recent
        /\ recentAt' = ObserveAt(recentAt, points_done)
        /\ stable_hits' = o.stable_hits
        /\ points_done' = o.points_done
        /\ pc' = IF o.stop THEN "plateau" ELSE "crawl"

\* lines 263-306: one grid point
ProcessPoint ==
    /\ pc = "crawl"
    /\ points_done < GridLen
    /\ \E rs \in FetchResults :
         /\ PointBody(rs)
         /\ bursts' = IF feed.kind = "burst" /\ rs # <<>> THEN bursts + 1 ELSE bursts
    /\ UNCHANGED <<cityIdx, clock, feed, restarts, places, prevStore, ops, repeated>>
    /\ UNCHANGED callVars

\* lines 304-308 and 251: the region's loop has ended, by plateau or by the
\* end of the grid; the next region, or the end of the run
EndRegion ==
    /\ \/ pc = "plateau"
       \/ pc = "crawl" /\ points_done = GridLen
    /\ IF cityIdx < Len(CITIES)
       THEN /\ cityIdx' = cityIdx + 1
            /\ pc' = "start"
       ELSE /\ cityIdx' = cityIdx
            /\ pc' = "done"
    /\ UNCHANGED <<store, clock, seen, recent, recentAt, stable_hits, points_done,
                   results, new_places, written, feed, bursts, restarts,
                   places, prevStore, ops, repeated>>
    /\ UNCHANGED callVars

\* the process is terminated inside a region's loop, between two points:
\* what the store holds stays
Interrupt ==
    /\ pc \in {"crawl", "plateau"}
    /\ pc' = "killed"
    /\ UNCHANGED <<cityIdx, store, clock, seen, recent, recentAt, stable_hits,
                   points_done, results, new_places, written, feed, bursts,
                   restarts, places, prevStore, ops, repeated>>
    /\ UNCHANGED callVars

\* main is run again on the same database, at a later time: lines 244-251
Restart ==
    /\ pc \in {"killed", "done"}
    /\ restarts < MaxRestarts
    /\ restarts' = restarts + 1
    /\ clock' = clock + 1
    /\ pc' = "start"
    /\ cityIdx' = 1
    /\ seen' = {}
    /\ recent' = <<>>
    /\ recentAt' = <<>>
    /\ stable_hits' = 0
    /\ points_done' = 0
    /\ results' = <<>>
    /\ new_places' = <<>>
    /\ written' = 0
    /\ UNCHANGED <<store, feed, bursts, places, prevStore, ops, repeated>>
    /\ UNCHANGED callVars

\* a second passes on the store's clock between two calls
Tick ==
    /\ pc = "idle"
    /\ clock < MaxClock
    /\ clock' = clock + 1
    /\ UNCHANGED <<pc, cityIdx, store, seen, recent, recentAt, stable_hits,
                   points_done, results, new_places, written, feed, bursts,
                   restarts, places, prevStore, ops, repeated>>
    /\ UNCHANGED callVars

Next == StartRegion \/ ProcessPoint \/ EndRegion \/ Interrupt \/ Restart

Spec == Init /\ [][Next]_vars

NextPlateau == StartRegion \/ ProcessPoint \/ EndRegion

SpecPlateau == InitPlateau /\ [][NextPlateau]_vars

\* ------------------------------------------------------------------------
\* The upsert functions called on their own
\* ------------------------------------------------------------------------
\* provider results that carry a place_id: place 1 with either set of
\* fields, place 2
KeyedPlaces ==
    { Place(1, v) : v \in Variants } \cup { Place(2, VariantAt(0)) }

\* the batches the functions are called with
KeyedBatches == SeqsUpTo(KeyedPlaces, MaxBatch)

\* the other region of a region
Other(c) == IF c = 1 THEN 2 ELSE 1

\* the database when the calls begin: a row the other region holds for place 1
InitUpsert ==
    /\ pc = "idle"
    /\ \E c \in 1..Len(CITIES), fn \in {"insert_places", "upsert_places"} :
         /\ cityIdx = c
         /\ feed = Feed(fn, 0, 0)
         /\ store = <<RowOf(CITIES[Other(c)], Place(1, VariantAt(0)), 0)>>
    /\ clock = 0
    /\ seen = {}
    /\ recent = <<>>
    /\ recentAt = <<>>
    /\ stable_hits = 0
    /\ points_done = 0
    /\ results = <<>>
    /\ new_places = <<>>
    /\ written = 0
    /\ bursts = 0
    /\ restarts = 0
    /\ HarnessIdle
    /\ CallIdle("plateau")
    /\ GridIdle
    /\ ZipIdle

CallFrame(ps) ==
    /\ ops' = ops + 1
    /\ places' = ps
    /\ prevStore' = store
    /\ repeated' = (ops >= 1 /\ places = ps)
    /\ UNCHANGED <<pc, cityIdx, clock, seen, recent, recentAt, stable_hits,
                   points_done, results, new_places, feed, bursts, restarts>>
    /\ UNCHANGED callVars

\* insert_places(conn, city, ps) of the plateau crawler
InsertPlacesCall ==
    /\ pc = "idle"
    /\ feed.kind = "insert_places"
    /\ ops < MaxOps
    /\ \E ps \in KeyedBatches :
         LET r == insert_places(store, City, ps, clock)
         IN  /\ store' = r.store
             /\ written' = r.written
             /\ CallFrame(ps)

\* upsert_places(conn, city, ps) of the 1000-per-city crawler
UpsertPlacesCall ==
    /\ pc = "idle"
    /\ feed.kind = "upsert_places"
    /\ ops < MaxOps
    /\ \E ps \in KeyedBatches :
         /\ store' = upsert_places(store, City, ps, clock)
         /\ written' = written
         /\ CallFrame(ps)

NextUpsert == InsertPlacesCall \/ UpsertPlacesCall \/ Tick

SpecUpsert == InitUpsert /\ [][NextUpsert]_vars

\* ------------------------------------------------------------------------
\* A batch write, statement by statement
\* ------------------------------------------------------------------------
\* the variables of main and of fetch_nearby, which a batch write leaves alone
batchFrame == <<cityIdx, clock, seen, recent, recentAt, stable_hits, points_done,
                results, new_places, feed, bursts, restarts, repeated, script,
                fpc, site, page, next_token, all_results, attempts, data,
                slept, outcome, prev, gridVars,
                zipVars>>

\* mutant: a connection in autocommit mode, every statement is committed
\* as it runs
ExecuteAutocommit(db, tx, row) ==
    [store |-> UpsertRow(db, row), txn |-> UpsertRow(tx, row)]

\* one statement of executemany: it runs inside the transaction sqlite3
\* opened for the connection, the committed rows stay as they are
Execute(db, tx, row) ==
    [store |-> db, txn |-> UpsertRow(tx, row)]

\* insert_places lines 125-148 / upsert_places lines 58-77: the rows are
\* built and executemany begins
BeginBatch ==
    /\ pc = "idle"
    /\ ops < MaxOps
    /\ \E ps \in KeyedBatches :
         /\ ps # <<>> \/ feed.kind = "upsert_places"
         /\ places' = ps
         /\ todo' = RowsOf(City, ps, clock)
         /\ pc' = IF ps = <<>> THEN "commit" ELSE "exec"
    /\ txn' = store
    /\ prevStore' = store
    /\ ops' = ops + 1
    /\ err' = None
    /\ UNCHANGED <<store, written>>
    /\ UNCHANGED batchFrame

\* executemany runs the statement for the next row
ExecStatement ==
    /\ pc = "exec"
    /\ LET r == Execute(store, txn, Head(todo))
       IN  /\ store' = r.store
           /\ txn' = r.txn
    /\ todo' = Tail(todo)
    /\ pc' = IF Tail(todo) = <<>> THEN "commit" ELSE "exec"
    /\ UNCHANGED <<places, prevStore, ops, err, written>>
    /\ UNCHANGED batchFrame

\* the statement for the next row raises sqlite3.Error: insert_places
\* leaves its with block, which rolls the transaction back; upsert_places
\* has no handler and leaves the transaction open; both let the exception
\* through to main
StatementFails ==
    /\ pc = "exec"
    /\ err' = "sqlite3.Error"
    /\ pc' = "raised"
    /\ txn' = IF feed.kind = "insert_places" THEN store ELSE txn
    /\ UNCHANGED <<store, todo, places, prevStore, ops, written>>
    /\ UNCHANGED batchFrame

\* insert_places line 148, the with block ends / upsert_places line 98
Commit ==
    /\ pc = "commit"
    /\ store' = txn
    /\ written' = IF feed.kind = "insert_places" THEN Len(places) ELSE written
    /\ pc' = "idle"
    /\ UNCHANGED <<txn, todo, places, prevStore, ops, err>>
    /\ UNCHANGED batchFrame

\* main has no handler around the write (plateau line 275, 1000-per-city
\* line 219): the exception ends the process and the connection goes with
\* its open transaction
Unwind ==
    /\ pc = "raised"
    /\ pc' = "crashed"
    /\ txn' = store
    /\ UNCHANGED <<store, todo, places, prevStore, ops, err, written>>
    /\ UNCHANGED batchFrame

\* the process is terminated while the batch is being written
KillInBatch ==
    /\ pc \in {"exec", "commit"}
    /\ pc' = "killed"
    /\ txn' = store
    /\ UNCHANGED <<store, todo, places, prevStore, ops, err, written>>
    /\ UNCHANGED batchFrame

NextBatch ==
    BeginBatch \/ ExecStatement \/ StatementFails \/ Commit \/ Unwind \/ KillInBatch

SpecBatch == InitUpsert /\ [][NextBatch]_vars

\* ------------------------------------------------------------------------
\* fetch_nearby and safe_get, request by request
\* ------------------------------------------------------------------------
\* a call of time.sleep
Sleep(why, ds) == [why |-> why, ds |-> ds]

\* the statuses the provider answers with; REQUEST_DENIED is the fatal one
Statuses == {"OK", "ZERO_RESULTS", "INVALID_REQUEST", "UNKNOWN_ERROR", "REQUEST_DENIED"}

\* the result lists of an OK page
PageResults ==
    { <<Place(1, VariantAt(0))>>,
      <<Place(2, VariantAt(0)), Place(0, VariantAt(0))>> }

Answer(st, rs, tok) == [status |-> st, results |-> rs, token |-> tok]

\* the bodies the provider answers a request with: an OK page holds results
\* and may hold a next_page_token, every other status holds neither
Answers ==
    { Answer("OK", rs, tok) : rs \in PageResults, tok \in BOOLEAN }
        \cup { Answer(st, <<>>, FALSE) : st \in Statuses \ {"OK"} }

\* why a call ended on a status that is neither OK nor ZERO_RESULTS
CauseOf(st) ==
    CASE st = "REQUEST_DENIED" -> "fatal"
      [] st = "UNKNOWN_ERROR"  -> "transient"
      [] OTHER                 -> "invalid"

\* the position of fetch_nearby after a step
Frame(f, st, pg, tok, acc, sl, out) ==
    [fpc |-> f, site |-> st, page |-> pg, next_token |-> tok,
     all_results |-> acc, slept |-> sl, outcome |-> out]

\* return value: fetch_nearby has ended and hands value to main
Return(pg, tok, acc, value, cause) ==
    Frame("returned", "first", pg, tok, acc, <<>>,
          [kind |-> "return", value |-> value, cause |-> cause])

\* raise: fetch_nearby has ended with an exception
Raise(pg, tok, acc, what, cause) ==
    Frame("raised", "first", pg, tok, acc, <<>>,
          [kind |-> "raise", value |-> what, cause |-> cause])

\* mutant: the loop runs while there is a token, with no bound on the pages
NextPageUnbounded(pg, acc) ==
    Frame("get", "first", pg, TRUE, acc, <<Sleep("token", TOKEN_SLEEP)>>, NoOutcome)

\* lines 185-190 (1000-per-city 136-141): the for loop goes to its next
\* iteration with next_token set
NextPage(pg, acc) ==
    IF pg = max_pages
    THEN Return(pg, TRUE, acc, acc, "pages")
    ELSE Frame("get", "first", pg, TRUE, acc, <<Sleep("token", TOKEN_SLEEP)>>, NoOutcome)

\* lines 203-208, 223-228 (1000-per-city 154-157): an OK page
OkPage(pg, acc, r) ==
    IF r.token THEN NextPage(pg + 1, acc \o r.results)
    ELSE Return(pg, FALSE, acc \o r.results, acc \o r.results, "ok")

\* mutant: INVALID_REQUEST is retried for as long as it is the answer
TokenRejectedAgain(st, tok, r) ==
    r.status = "INVALID_REQUEST" /\ tok

\* line 196 (1000-per-city 145): the answer to the request of line 190 says
\* the token is not yet valid
TokenRejected(st, tok, r) ==
    st = "first" /\ r.status = "INVALID_REQUEST" /\ tok

\* fetch_nearby of the plateau crawler, lines 193-238, from an answer to
\* the next request or the end of the call
fetch_plateau(st, pg, tok, acc, r) ==
    IF TokenRejected(st, tok, r)
    THEN Frame("get", "invalid_retry", pg, tok, acc,
               <<Sleep("invalid", RETRY_SLEEP)>>, NoOutcome)
    ELSE IF r.status = "OK" THEN OkPage(pg, acc, r)
    ELSE IF r.status = "ZERO_RESULTS"
         THEN Return(pg, FALSE, acc, acc, "empty")
    ELSE IF r.status = "UNKNOWN_ERROR" /\ st # "unknown_retry"
         THEN Frame("get", "unknown_retry", pg, tok, acc,
                    <<Sleep("unknown", RETRY_SLEEP)>>, NoOutcome)
    ELSE Return(pg, tok, acc, <<>>, CauseOf(r.status))

\* fetch_nearby of the 1000-per-city crawler, lines 143-157
fetch_target(st, pg, tok, acc, r) ==
    IF TokenRejected(st, tok, r)
    THEN Frame("get", "invalid_retry", pg, tok, acc,
               <<Sleep("invalid", RETRY_SLEEP)>>, NoOutcome)
    ELSE IF r.status \notin {"OK", "ZERO_RESULTS"}
         THEN Raise(pg, tok, acc, <<"RuntimeError", r.status>>, CauseOf(r.status))
    ELSE IF r.status = "OK" THEN OkPage(pg, acc, r)
    ELSE Return(pg, FALSE, acc, acc, "empty")

AfterAnswer(st, pg, tok, acc, r) ==
    IF script = "plateau" THEN fetch_plateau(st, pg, tok, acc, r)
    ELSE fetch_target(st, pg, tok, acc, r)

RECURSIVE Pow2(_)
Pow2(i) == IF i = 0 THEN 1 ELSE 2 * Pow2(i - 1)

\* mutant: 2 ** i with no cap
BackoffUncapped(i) == 10 * Pow2(i)

\* lines 60 and 64: min(2 ** i, 30)
Backoff(i) == 10 * (IF Pow2(i) < BACKOFF_CAP THEN Pow2(i) ELSE BACKOFF_CAP)

\* lines 60 and 64: random.uniform(0, 1), the least and the largest tenth
Jitters == {0, 9}

\* mutant: range(max_tries + 1)
GivesUpLate(n) == n = max_tries + 1

\* line 56 and 68: the for loop of safe_get has run out after n failures
GivesUp(n) == n = max_tries

\* the variables of main, which a step inside fetch_nearby leaves alone
fetchFrame == <<pc, cityIdx, store, clock, seen, recent, recentAt, stable_hits,
                points_done, results, new_places, written, feed, bursts,
                restarts, places, prevStore, ops, repeated, script, txn, todo,
                err, gridVars,
                zipVars>>

\* the variables no step of main with the paged provider changes
mainFrame == <<cityIdx, clock, feed, bursts, restarts, places, prevStore, ops,
               repeated, script, txn, todo, err, gridVars,
                zipVars>>

\* main line 264 (1000-per-city 194-198): the next grid point, fetch_nearby
\* is called and is about to make its first request
CallFetch ==
    /\ pc = "crawl"
    /\ fpc = "idle"
    /\ points_done < GridLen
    /\ script = "target" => Cardinality(seen) < TargetPerCity
    /\ fpc' = "get"
    /\ site' = "first"
    /\ page' = 0
    /\ next_token' = FALSE
    /\ all_results' = <<>>
    /\ attempts' = 0
    /\ prev' = outcome
    /\ outcome' = NoOutcome
    /\ UNCHANGED <<data, slept>>
    /\ UNCHANGED fetchFrame

\* an attempt of the request fails with a timeout or a connection error.
\* safe_get lines 59-68: sleep and try again, RuntimeError after max_tries
\* failures; requests.get of the 1000-per-city crawler, lines 141 and 147:
\* the exception of requests leaves fetch_nearby
AttemptFails ==
    /\ fpc = "get"
    /\ IF script = "plateau"
       THEN /\ attempts' = attempts + 1
            /\ \E j \in Jitters :
                 slept' = <<Sleep("backoff", Backoff(attempts) + j)>>
            /\ IF GivesUp(attempts + 1)
               THEN /\ fpc' = "raised"
                    /\ outcome' = [kind |-> "raise",
                                   value |-> <<"RuntimeError", "network">>,
                                   cause |-> "network"]
               ELSE UNCHANGED <<fpc, outcome>>
       ELSE /\ attempts' = attempts + 1
            /\ slept' = <<>>
            /\ fpc' = "raised"
            /\ outcome' = [kind |-> "raise",
                           value |-> <<"RequestException", "network">>,
                           cause |-> "network"]
    /\ UNCHANGED <<site, page, next_token, all_results, data, prev>>
    /\ UNCHANGED fetchFrame

\* an attempt of the request is answered: safe_get returns the response and
\* fetch_nearby runs to its next request or to its end
AttemptAnswers ==
    /\ fpc = "get"
    /\ \E r \in Answers :
         LET f == AfterAnswer(site, page, next_token, all_results, r)
         IN  /\ data' = r
             /\ fpc' = f.fpc
             /\ site' = f.site
             /\ page' = f.page
             /\ next_token' = f.next_token
             /\ all_results' = f.all_results
             /\ slept' = f.slept
             /\ outcome' = f.outcome
             /\ attempts' = IF f.fpc = "get" THEN 0 ELSE attempts
    /\ UNCHANGED prev
    /\ UNCHANGED fetchFrame

\* plateau main lines 266-306: fetch_nearby has returned
PointReturned ==
    /\ script = "plateau"
    /\ pc = "crawl"
    /\ fpc = "returned"
    /\ PointBody(outcome.value)
    /\ slept' = IF pc' = "plateau" THEN slept
                ELSE Append(slept, Sleep("politeness", REQUEST_SLEEP))
    /\ fpc' = "idle"
    /\ attempts' = 0
    /\ UNCHANGED <<site, page, next_token, all_results, data, outcome, prev>>
    /\ UNCHANGED mainFrame

\* plateau main line 264: there is no handler around fetch_nearby, the
\* RuntimeError of safe_get ends main
PointRaised ==
    /\ script = "plateau"
    /\ pc = "crawl"
    /\ fpc = "raised"
    /\ pc' = "crashed"
    /\ fpc' = "idle"
    /\ attempts' = 0
    /\ UNCHANGED <<store, seen, recent, recentAt, stable_hits, points_done,
                   results, new_places, written>>
    /\ UNCHANGED <<site, page, next_token, all_results, data, slept,
                   outcome, prev>>
    /\ UNCHANGED mainFrame

\* mutant: a result without place_id is taken like any other
RECURSIVE DedupTargetKeepsMissing(_, _, _)
DedupTargetKeepsMissing(rs, S, acc) ==
    IF rs = <<>> THEN [seen |-> S, new_places |-> acc]
    ELSE LET p == Head(rs)
             pid == p.place_id
         IN  IF pid \in S
             THEN DedupTargetKeepsMissing(Tail(rs), S, acc)
             ELSE IF Cardinality(S \cup {pid}) >= TargetPerCity
                  THEN [seen |-> S \cup {pid}, new_places |-> Append(acc, p)]
                  ELSE DedupTargetKeepsMissing(Tail(rs), S \cup {pid},
                                               Append(acc, p))

\* 1000-per-city main lines 205-216: the new places of a point, up to the
\* target
RECURSIVE DedupTarget(_, _, _)
DedupTarget(rs, S, acc) ==
    IF rs = <<>> THEN [seen |-> S, new_places |-> acc]
    ELSE LET p == Head(rs)
             pid == p.place_id
         IN  IF pid = 0 \/ pid \in S
             THEN DedupTarget(Tail(rs), S, acc)
             ELSE IF Cardinality(S \cup {pid}) >= TargetPerCity
                  THEN [seen |-> S \cup {pid}, new_places |-> Append(acc, p)]
                  ELSE DedupTarget(Tail(rs), S \cup {pid}, Append(acc, p))

\* 1000-per-city main lines 205-224: fetch_nearby has returned
PointReturnedTarget ==
    /\ script = "target"
    /\ pc = "crawl"
    /\ fpc = "returned"
    /\ LET d == DedupTarget(outcome.value, seen, <<>>)
       IN  /\ results' = outcome.value
           /\ seen' = d.seen
           /\ new_places' = d.new_places
           /\ store' = IF d.new_places # <<>>
                       THEN upsert_places(store, City, d.new_places, clock)
                       ELSE store
    /\ points_done' = points_done + 1
    /\ slept' = Append(slept, Sleep("politeness", TARGET_REQUEST_SLEEP))
    /\ fpc' = "idle"
    /\ attempts' = 0
    /\ UNCHANGED <<pc, recent, recentAt, stable_hits, written>>
    /\ UNCHANGED <<site, page, next_token, all_results, data, outcome, prev>>
    /\ UNCHANGED mainFrame

\* 1000-per-city main lines 199-203: a RuntimeError of fetch_nearby is
\* caught, main sleeps and goes on with the next point; any other exception
\* ends main
PointRaisedTarget ==
    /\ script = "target"
    /\ pc = "crawl"
    /\ fpc = "raised"
    /\ IF outcome.value[1] = "RuntimeError"
       THEN /\ points_done' = points_done + 1
            /\ slept' = Append(slept, Sleep("api_error", API_ERROR_SLEEP))
            /\ pc' = "crawl"
       ELSE /\ pc' = "crashed"
            /\ UNCHANGED <<points_done, slept>>
    /\ fpc' = "idle"
    /\ attempts' = 0
    /\ UNCHANGED <<store, seen, recent, recentAt, stable_hits, results,
                   new_places, written>>
    /\ UNCHANGED <<site, page, next_token, all_results, data, outcome, prev>>
    /\ UNCHANGED mainFrame

\* 1000-per-city main lines 194-195 and 226: the region has its target,
\* the loop over the grid is left
TargetReached ==
    /\ script = "target"
    /\ pc = "crawl"
    /\ fpc = "idle"
    /\ points_done < GridLen
    /\ Cardinality(seen) >= TargetPerCity
    /\ IF cityIdx < Len(CITIES)
       THEN /\ cityIdx' = cityIdx + 1
            /\ pc' = "start"
       ELSE /\ cityIdx' = cityIdx
            /\ pc' = "done"
    /\ UNCHANGED <<store, clock, seen, recent, recentAt, stable_hits, points_done,
                   results, new_places, written, feed, bursts, restarts,
                   places, prevStore, ops, repeated>>
    /\ UNCHANGED callVars

\* both crawl scripts on a provider that answers request by request
InitCrawl ==
    \E sc \in {"plateau", "target"} : InitRunOf(Feed("pages", 0, 0), sc)

NextCrawl ==
    \/ StartRegion
    \/ CallFetch
    \/ AttemptFails
    \/ AttemptAnswers
    \/ PointReturned
    \/ PointRaised
    \/ PointReturnedTarget
    \/ PointRaisedTarget
    \/ TargetReached
    \/ EndRegion

SpecCrawl == InitCrawl /\ [][NextCrawl]_vars

\* ------------------------------------------------------------------------
\* grid_points / generate_grid_points, point by point
\* ------------------------------------------------------------------------
\* the crawl loop is not running
Parked ==
    /\ pc = "idle"
    /\ cityIdx = 1
    /\ store = <<>>
    /\ clock = 0
    /\ seen = {}
    /\ recent = <<>>
    /\ recentAt = <<>>
    /\ stable_hits = 0
    /\ points_done = 0
    /\ results = <<>>
    /\ new_places = <<>>
    /\ written = 0
    /\ feed = Feed("none", 0, 0)
    /\ bursts = 0
    /\ restarts = 0
    /\ HarnessIdle
    /\ CallIdle("plateau")

\* the variables of the crawl loop and of the calls it makes
crawlVars == <<pc, cityIdx, store, clock, seen, recent, recentAt, stable_hits,
               points_done, results, new_places, written, feed, bursts,
               restarts, places, prevStore, ops, repeated, script, fpc, site,
               page, next_token, all_results, attempts, data, slept, outcome,
               prev, txn, todo, err>>

Abs(x) == IF x < 0 THEN 0 - x ELSE x

\* coordinates are whole numbers of the unit in which meters_to_lat(1) = 1
\* (1 / 111320 of a degree)
Coords == (0 - 1)..MaxCoord

Boxes ==
    [lat_min : Coords, lat_max : Coords, lng_min : Coords, lng_max : Coords]

\* line 160: m / 111320
meters_to_lat(m) == m

\* 1 / cos(radians(lat)) for a latitude between the poles: 1 at the
\* equator, larger away from it; a whole number stands for it
Secant(la) == 1 + Abs(la)

\* mutant: the longitude step of the first row is used for every row
meters_to_lng_of_first_row(m, la) == m * Secant(bbox.lat_min)

\* line 161: m / (111320 * cos(radians(lat)) + 1e-9)
meters_to_lng(m, la) == m * Secant(la)

\* mutant: the row goes on until the point after lng_max
InRowOvershoot(lg) == lg - meters_to_lng(step_m, lat) <= bbox.lng_max

\* line 168: while lng <= bbox["lng_max"]
InRow(lg) == lg <= bbox.lng_max

\* the generator is called: for ... in grid_points(bbox, step_m), line 164
GridStart ==
    /\ gpc \in {"call", "again"}
    /\ lat' = bbox.lat_min
    /\ emitted' = <<>>
    /\ gpc' = "row"
    /\ UNCHANGED <<bbox, step_m, lng, firstRun>>
    /\ UNCHANGED zipVars
    /\ UNCHANGED crawlVars

\* lines 165-167: the next row begins, or the generator is exhausted
RowStart ==
    /\ gpc = "row"
    /\ IF lat <= bbox.lat_max
       THEN /\ lng' = bbox.lng_min
            /\ gpc' = "col"
            /\ UNCHANGED firstRun
       ELSE /\ lng' = lng
            /\ gpc' = IF firstRun.done THEN "end" ELSE "again"
            /\ firstRun' = IF firstRun.done THEN firstRun
                           ELSE [done |-> TRUE, points |-> emitted]
    /\ UNCHANGED <<bbox, step_m, lat, emitted>>
    /\ UNCHANGED zipVars
    /\ UNCHANGED crawlVars

\* lines 168-170: a point is yielded
Emit ==
    /\ gpc = "col"
    /\ InRow(lng)
    /\ emitted' = Append(emitted, [lat |-> lat, lng |-> lng])
    /\ lng' = lng + meters_to_lng(step_m, lat)
    /\ UNCHANGED <<bbox, step_m, lat, firstRun, gpc>>
    /\ UNCHANGED zipVars
    /\ UNCHANGED crawlVars

\* lines 168 and 171: the row is over
RowEnd ==
    /\ gpc = "col"
    /\ ~InRow(lng)
    /\ lat' = lat + meters_to_lat(step_m)
    /\ gpc' = "row"
    /\ UNCHANGED <<bbox, step_m, lng, emitted, firstRun>>
    /\ UNCHANGED zipVars
    /\ UNCHANGED crawlVars

\* the generator is run twice on a bounding box and a step
InitGrid ==
    /\ Parked
    /\ ZipIdle
    /\ bbox \in Boxes
    /\ step_m \in 1..MaxStep
    /\ lat = 0
    /\ lng = 0
    /\ emitted = <<>>
    /\ firstRun = [done |-> FALSE, points |-> <<>>]
    /\ gpc = "call"

NextGrid == GridStart \/ RowStart \/ Emit \/ RowEnd

SpecGrid == InitGrid /\ [][NextGrid]_vars

\* ------------------------------------------------------------------------
\* fill_zip_from_place_details.py: main, fetch by fetch
\* ------------------------------------------------------------------------
\* lines 47-50: the statuses fetch_details returns
DetailsStatuses == {"OK", "OVER_QUERY_LIMIT", "ZERO_RESULTS", "REQUEST_DENIED"}

\* mutant: one more fetch before giving up
ExhaustedLate(r) == r > MAX_RETRIES + 1

\* lines 118 and 132: retry > MAX_RETRIES
Exhausted(r) == r > MAX_RETRIES

\* lines 128 and 135, 140-141: the retry loop is left, and every
\* BATCH_COMMIT rows what the connection has set is committed
RowDone(fl) ==
    /\ saved' = IF rowIdx % BatchCommit = 0 THEN fl ELSE saved
    /\ zpc' = "loop"

\* lines 92-96: the next selected row
ZipNextRow ==
    /\ zpc = "loop"
    /\ rowIdx < total
    /\ rowIdx' = rowIdx + 1
    /\ retry' = 0
    /\ backoff' = 1
    /\ fetches' = 0
    /\ zpc' = "fetch"
    /\ UNCHANGED <<total, updated, skipped, over_limit_hits, filled, saved>>
    /\ UNCHANGED gridVars /\ UNCHANGED crawlVars

\* lines 99-128: fetch_details returns a status
ZipFetchAnswered ==
    /\ zpc = "fetch"
    /\ fetches' = fetches + 1
    /\ \E st \in DetailsStatuses :
         CASE st = "OK" ->
                /\ filled' = filled \cup {rowIdx}
                /\ updated' = updated + 1
                /\ RowDone(filled \cup {rowIdx})
                /\ UNCHANGED <<skipped, over_limit_hits, backoff, retry>>
           [] st = "OVER_QUERY_LIMIT" ->
                /\ over_limit_hits' = over_limit_hits + 1
                /\ backoff' = backoff * 2
                /\ retry' = retry + 1
                /\ IF Exhausted(retry + 1)
                   THEN /\ zpc' = "exit2"
                        /\ filled' = saved
                   ELSE /\ zpc' = "fetch"
                        /\ filled' = filled
                /\ UNCHANGED <<updated, skipped, saved>>
           [] OTHER ->
                /\ skipped' = skipped + 1
                /\ RowDone(filled)
                /\ UNCHANGED <<updated, over_limit_hits, backoff, retry, filled>>
    /\ UNCHANGED <<total, rowIdx>>
    /\ UNCHANGED gridVars /\ UNCHANGED crawlVars

\* lines 130-138: fetch_details raises a RequestException
ZipFetchFails ==
    /\ zpc = "fetch"
    /\ fetches' = fetches + 1
    /\ retry' = retry + 1
    /\ IF Exhausted(retry + 1)
       THEN /\ skipped' = skipped + 1
            /\ RowDone(filled)
       ELSE /\ zpc' = "fetch"
            /\ UNCHANGED <<skipped, saved>>
    /\ UNCHANGED <<total, rowIdx, backoff, updated, over_limit_hits, filled>>
    /\ UNCHANGED gridVars /\ UNCHANGED crawlVars

\* lines 146-151: every row is done, the last commit
ZipFinish ==
    /\ zpc = "loop"
    /\ rowIdx = total
    /\ saved' = filled
    /\ zpc' = "done"
    /\ UNCHANGED <<total, rowIdx, retry, backoff, updated, skipped,
                   over_limit_hits, fetches, filled>>
    /\ UNCHANGED gridVars /\ UNCHANGED crawlVars

\* lines 83-90: main has selected its rows
InitZip ==
    /\ Parked
    /\ GridIdle
    /\ total \in 0..MaxRows
    /\ rowIdx = 0
    /\ retry = 0
    /\ backoff = 1
    /\ updated = 0
    /\ skipped = 0
    /\ over_limit_hits = 0
    /\ fetches = 0
    /\ filled = {}
    /\ saved = {}
    /\ zpc = "loop"

NextZip == ZipNextRow \/ ZipFetchAnswered \/ ZipFetchFails \/ ZipFinish

SpecZip == InitZip /\ [][NextZip]_vars

\* ------------------------------------------------------------------------
\* Plateau detector
\* ------------------------------------------------------------------------
\* a step that processes one grid point
PointStep == points_done' = points_done + 1

\* C1: at every grid point processed with points_done >= 80 and a window of
\* exactly 50 entries, stable_hits goes up by one when the mean of the window
\* is below 0.5 and back to 0 otherwise, and the region's loop stops at that
\* point exactly when stable_hits has reached 5.
C1_PlateauRule ==
    [][ (PointStep /\ points_done' >= 80 /\ Len(recent') = 50)
          => /\ stable_hits' = IF 2 * SumSeq(recent') < 50
                               THEN stable_hits + 1 ELSE 0
             /\ (pc' = "plateau") <=> (stable_hits' = 5) ]_vars

\* the loop has stopped on a window that is low but not empty of new places
C1_Witness ==
    /\ pc = "plateau"
    /\ stable_hits = 5
    /\ points_done >= 80
    /\ Len(recent) = 50
    /\ SumSeq(recent) = 24

\* C2: while points_done is below 80 or the window holds fewer than 50
\* entries the detector has not stopped and stable_hits is 0; a stopped
\* detector has passed the warm-up, holds a full window and 5 stable hits.
C2_NoStopBeforeSampling ==
    /\ (points_done < 80 \/ Len(recent) < 50)
          => (stable_hits = 0 /\ pc # "plateau")
    /\ pc = "plateau"
          => (points_done >= 80 /\ Len(recent) = 50 /\ stable_hits >= 5
              /\ 2 * SumSeq(recent) < 50)

\* a full window of zeros inside the warm-up, which counted for nothing
C2_Witness ==
    /\ pc = "crawl"
    /\ points_done = 79
    /\ Len(recent) = 50
    /\ SumSeq(recent) = 0
    /\ stable_hits = 0

\* C3: at point 80 the window is cleared and stable_hits is 0, and from then
\* on every entry of the window was observed at point 80 or later.
C3_NoPreWarmupSamples ==
    /\ Len(recentAt) = Len(recent)
    /\ (pc \in {"crawl", "plateau"} /\ points_done = 80)
          => (Len(recent) = 1 /\ stable_hits = 0)
    /\ (pc \in {"crawl", "plateau"} /\ points_done >= 80)
          => \A i \in 1..Len(recentAt) : recentAt[i] >= 80

\* the first evaluation after a dense point inside the warm-up: the window
\* is full and holds none of it
C3_Witness ==
    /\ pc = "crawl"
    /\ feed.kind = "burst"
    /\ bursts = 1
    /\ points_done = 129
    /\ Len(recent) = 50
    /\ SumSeq(recent) = 0
    /\ stable_hits = 1

\* C4: fed zeros only, the detector has not stopped at point 80 (where the
\* window restarts), at point 130 the window is full and stable_hits is
\* positive and below 5 with the loop still running, and the loop stops
\* before the window has been refilled a second time.
C4_ZerosReachStop ==
    (feed.kind = "zeros" /\ pc \in {"crawl", "plateau"})
       => /\ points_done = 80 => (pc = "crawl" /\ Len(recent) = 1)
          /\ points_done = 130
               => (pc = "crawl" /\ Len(recent) = 50
                   /\ stable_hits > 0 /\ stable_hits < 5)
          /\ pc = "crawl" => points_done < 80 + 50 + 5

\* the zero-fed detector has signalled stop
C4_Witness ==
    /\ feed.kind = "zeros"
    /\ pc = "plateau"
    /\ points_done > 130
    /\ SumSeq(recent) = 0

\* C5: fed 0, 1, 0, 1, ... the detector never stops and stable_hits is 0 at
\* every point.
C5_AlternatingNeverStops ==
    (feed.kind = "every" /\ feed.k = 1 /\ feed.period = 2)
        => (stable_hits = 0 /\ pc # "plateau")

\* a full window after the warm-up whose mean is exactly 0.5
C5_Witness ==
    /\ feed.kind = "every"
    /\ pc = "crawl"
    /\ points_done >= 129
    /\ Len(recent) = 50
    /\ 2 * SumSeq(recent) = 50
    /\ \A i \in 1..49 : recent[i] # recent[i + 1]

\* ------------------------------------------------------------------------
\* Dedup against the seen-set, and the store
\* ------------------------------------------------------------------------
\* the place_ids of a result list; a missing place_id is none
IdsOf(ps) == { ps[i].place_id : i \in 1..Len(ps) } \ {0}

\* the rows of the store a key names
RowsAt(db, city, pid) ==
    { i \in 1..Len(db) : db[i].city = city /\ db[i].place_id = pid }

\* C6: at every grid point the number of records classified as new, which is
\* the value fed to the plateau window, is the number of distinct place_ids
\* of the result list that are not in the seen-set as it was when the results
\* arrived; afterwards the seen-set holds every place_id of the list.
C6_NewCountIsDistinctUnseen ==
    [][ (pc = "crawl" /\ PointStep)
          => /\ Len(new_places') = Cardinality(IdsOf(results') \ seen)
             /\ IdsOf(new_places') = IdsOf(results') \ seen
             /\ recent'[Len(recent')] = Len(new_places')
             /\ seen' = seen \cup IdsOf(results') ]_vars

\* a place_id that comes twice in one result list is counted once
C6_Witness ==
    /\ pc = "crawl"
    /\ Len(results) = 2
    /\ results[1].place_id # 0
    /\ results[1].place_id = results[2].place_id
    /\ new_places = <<results[1]>>
    /\ recent[Len(recent)] = 1

\* C7: after every processed grid point the number of store rows of the
\* region is the size of the seen-set; from an empty store, with a provider
\* that returns k places never seen before at every point, both are k times
\* the number of points.
C7_RowsMatchSeen ==
    /\ pc \in {"crawl", "plateau"}
          => count_city(store, City) = Cardinality(seen)
    /\ (pc \in {"crawl", "plateau"} /\ feed.kind = "const" /\ restarts = 0)
          => /\ Cardinality(seen) = feed.k * points_done
             /\ Cardinality(RowsOfCity(store, City)) = feed.k * points_done

\* three new places at each of the points of the grid
C7_Witness ==
    /\ pc = "crawl"
    /\ feed.kind = "const"
    /\ feed.k = 3
    /\ restarts = 0
    /\ points_done = ShortGrid
    /\ Cardinality(seen) = 3 * ShortGrid
    /\ count_city(store, City) = 3 * ShortGrid

\* C8: when a region's crawl starts the seen-set is exactly the set of
\* place_ids the store holds for that region; at every grid point a row the
\* store already holds for the region is left as it is, and its place is not
\* among the new places nor counted in the yield.
C8_ResumeFromStore ==
    [][ /\ (pc = "start" /\ pc' = "crawl")
            => seen' = { store[i].place_id : i \in RowsOfCity(store, City) }
        /\ (pc = "crawl" /\ PointStep)
            => /\ \A i \in RowsOfCity(store, City) :
                    /\ store'[i] = store[i]
                    /\ store[i].place_id \notin IdsOf(new_places')
               /\ recent'[Len(recent')] =
                    Cardinality(IdsOf(results')
                                  \ { store[i].place_id : i \in RowsOfCity(store, City) })
      ]_vars

\* after a restart the provider returns, with other fields, a place the
\* earlier run persisted: it is not new and its row is the earlier run's
C8_Witness ==
    /\ pc = "crawl"
    /\ restarts = 1
    /\ points_done = 1
    /\ Len(results) = 1
    /\ new_places = <<>>
    /\ recent = <<0>>
    /\ \E i \in RowsOfCity(store, City) :
          /\ store[i].place_id = results[1].place_id
          /\ store[i].raw_json # results[1]

\* ------------------------------------------------------------------------
\* Upsert
\* ------------------------------------------------------------------------
CallStep == pc = "idle" /\ ops' = ops + 1

\* the last record of a batch that carries a place_id
LastOf(ps, pid) ==
    ps[CHOOSE i \in 1..Len(ps) :
          /\ ps[i].place_id = pid
          /\ \A j \in (i + 1)..Len(ps) : ps[j].place_id # pid]

\* a row without its fetched_at
Observable(r) ==
    [city |-> r.city, place_id |-> r.place_id, name |-> r.name,
     address |-> r.address, raw_json |-> r.raw_json]

\* C9: an upsert of a batch leaves, for every key (city, place_id) of the
\* batch, exactly one row: a new row when the key was absent, the same row
\* when it was there; its fields are those of the last record of the batch
\* with that key and its fetched_at is the time of the call.  Rows of other
\* keys are untouched.
C9_UpsertByKey ==
    [][ CallStep =>
          /\ \A c \in 1..Len(CITIES) :
               \A pid \in IdsOf(places') \cup { store[i].place_id : i \in 1..Len(store) } :
                  LET before == RowsAt(store, CITIES[c], pid)
                      after  == RowsAt(store', CITIES[c], pid)
                  IN  IF c = cityIdx /\ pid \in IdsOf(places')
                      THEN /\ Cardinality(after) = 1
                           /\ before # {} => after = before
                           /\ \A i \in after :
                                LET p == LastOf(places', pid)
                                IN  /\ store'[i].name = p.name
                                    /\ store'[i].address =
                                          (IF p.vicinity # None THEN p.vicinity
                                           ELSE p.formatted_address)
                                    /\ store'[i].raw_json = p
                                    /\ store'[i].fetched_at = clock
                      ELSE /\ after = before
                           /\ \A i \in before : store'[i] = store[i]
          /\ Len(store') = Len(store)
                + Cardinality({ pid \in IdsOf(places') :
                                  RowsAt(store, City, pid) = {} }) ]_vars

\* the second upsert of a key, later and with other fields: the row is the
\* same row, with the later fields and the later fetched_at
C9_Witness ==
    /\ pc = "idle"
    /\ ops = 2
    /\ Len(places) = 1
    /\ Len(store) = Len(prevStore)
    /\ \E i \in RowsAt(prevStore, City, places[1].place_id) :
          /\ prevStore[i].raw_json # places[1]
          /\ store[i].raw_json = places[1]
          /\ store[i].name = places[1].name
          /\ store[i].fetched_at > prevStore[i].fetched_at
          /\ RowsAt(store, City, places[1].place_id) = {i}

\* C10: an upsert of the batch that was upserted just before, for the same
\* region, changes no key, no row count and no descriptive field; the
\* fetched_at of a row does not go back.
C10_UpsertIdempotent ==
    [][ (CallStep /\ ops >= 1 /\ places' = places /\ cityIdx' = cityIdx)
          => /\ Len(store') = Len(store)
             /\ \A i \in 1..Len(store) :
                  /\ Observable(store'[i]) = Observable(store[i])
                  /\ store'[i].fetched_at >= store[i].fetched_at ]_vars

\* the same batch upserted a second time, a second later: only fetched_at
\* has moved
C10_Witness ==
    /\ pc = "idle"
    /\ ops = 2
    /\ repeated
    /\ Len(places) = 2
    /\ places[1].place_id # places[2].place_id
    /\ Len(store) = Len(prevStore)
    /\ \A i \in 1..Len(store) : Observable(store[i]) = Observable(prevStore[i])
    /\ \E i \in 1..Len(store) : store[i].fetched_at > prevStore[i].fetched_at

\* ------------------------------------------------------------------------
\* Records are never deleted
\* ------------------------------------------------------------------------
\* the (city, place_id) keys of a store
KeysOf(db) == { <<db[i].city, db[i].place_id>> : i \in 1..Len(db) }

\* C11: no step of the crawler (region start, grid point with its upsert,
\* end of a region, interruption, restart) removes a row or changes the
\* (city, place_id) key of a row: every row of the store is still there
\* after the step, under the same key, and so is every key.
C11_KeysNeverLost ==
    [][ /\ Len(store') >= Len(store)
        /\ \A i \in 1..Len(store) : SameKey(store'[i], store[i])
        /\ KeysOf(store) \subseteq KeysOf(store') ]_vars

\* a restarted run has added rows next to those of the first run, and the
\* two regions hold the same place_id
C11_Witness ==
    /\ pc = "done"
    /\ restarts = 1
    /\ \E i, j \in 1..Len(store) :
          /\ i < j
          /\ store[i].fetched_at = 0
          /\ store[j].fetched_at = 1
    /\ \E i, j \in 1..Len(store) :
          /\ store[i].place_id = store[j].place_id
          /\ store[i].city # store[j].city

\* ------------------------------------------------------------------------
\* Batches are all-or-nothing
\* ------------------------------------------------------------------------
\* C12: the store holds either none of the statements of the batch being
\* written or, once the batch has committed, all of them; after a failed
\* statement or an interruption before the commit it holds none, and the
\* failure has reached the caller as an exception.
C12_BatchAllOrNothing ==
    /\ pc \in {"exec", "commit", "raised", "crashed", "killed"}
          => store = prevStore
    /\ (pc = "idle" /\ ops > 0)
          => store = ExecuteMany(prevStore, RowsOf(City, places, clock))
    /\ pc \in {"raised", "crashed"} => err # None
    /\ pc = "crashed" => txn = store

\* the second statement of a batch of two new keys failed
C12_Witness ==
    /\ pc = "crashed"
    /\ Len(places) = 2
    /\ Len(todo) = 1
    /\ places[1].place_id # places[2].place_id
    /\ \A i \in 1..Len(store) : store[i].city # City
    /\ err # None

\* ------------------------------------------------------------------------
\* Provider and network errors
\* ------------------------------------------------------------------------
\* a step in which a request of fetch_nearby is answered
AnswerStep == fpc = "get" /\ attempts' # attempts + 1

\* fetch_nearby is about to make the first attempt of a request
FirstAttempt == fpc = "get" /\ attempts = 0

\* what fetch_nearby handed to main, without the reason
Handed(o) == <<o.kind, o.value>>

\* C13: once a request of a grid point was answered REQUEST_DENIED, main
\* calls fetch_nearby for no further grid point and starts no further
\* region.
C13_FatalAbortsRun ==
    [][ data.status = "REQUEST_DENIED"
          => /\ ~(fpc = "idle" /\ fpc' = "get")
             /\ ~(pc = "start" /\ pc' = "crawl") ]_vars

\* C14: what fetch_nearby hands to main after a fatal status differs from
\* what it handed to main the call before, when that call ended on an
\* UNKNOWN_ERROR that its retry did not cure or on ZERO_RESULTS for the
\* first page.
C14_FatalDistinguishable ==
    ( /\ outcome.cause = "fatal"
      /\ \/ prev.cause = "transient"
         \/ prev.cause = "empty" /\ prev.value = <<>> )
        => Handed(outcome) # Handed(prev)

\* C15: in the plateau crawler, when safe_get has given up after max_tries
\* failed attempts, main goes on: the point is counted with no new place
\* and the loop of the region continues.
C15_NetworkFailureSkipsPoint ==
    [][ (script = "plateau" /\ fpc = "raised" /\ outcome.cause = "network")
          => /\ pc' = "crawl"
             /\ points_done' = points_done + 1
             /\ new_places' = <<>>
             /\ store' = store ]_vars

\* C16: safe_get makes an attempt only while fewer than max_tries (6) have
\* failed, gives up exactly when 6 have, and an answer ends it whatever
\* the number of failures before it: the results of an OK page are added
\* to all_results as they came, after 0 to 5 failures alike.
C16_SafeGetBounded ==
    [][ script = "plateau"
          => /\ fpc = "get" => attempts < 6
             /\ attempts' <= 6
             /\ (fpc = "get" /\ attempts' = attempts + 1)
                  => (fpc' = "raised" <=> attempts' = 6)
             /\ (AnswerStep /\ data'.status = "OK")
                  => /\ all_results' = all_results \o data'.results
                     /\ fpc' = "get" => attempts' = 0
                     /\ fpc' = "returned" => outcome'.value = all_results' ]_vars

\* the second page of a point was answered after three failed attempts
\* and its results are in what fetch_nearby returned
C16_Witness ==
    /\ script = "plateau"
    /\ fpc = "returned"
    /\ attempts = 3
    /\ page = 1
    /\ data.status = "OK"
    /\ Len(outcome.value) = 2
    /\ outcome.value[2] = data.results[1]

\* C17: in the plateau crawler an UNKNOWN_ERROR answer is followed by one
\* retry after a delay; when the answer to the retry is neither OK nor
\* ZERO_RESULTS the call ends, no further retry is made, and fetch_nearby
\* returns the results accumulated from the earlier pages of the point.
C17_TransientReturnsAccumulated ==
    [][ (script = "plateau" /\ AnswerStep)
          => /\ (data'.status = "UNKNOWN_ERROR" /\ site # "unknown_retry")
                  => /\ fpc' = "get"
                     /\ site' = "unknown_retry"
                     /\ slept' = <<Sleep("unknown", 20)>>
             /\ (site = "unknown_retry" /\ data'.status \notin {"OK", "ZERO_RESULTS"})
                  => /\ fpc' = "returned"
                     /\ outcome'.kind = "return"
                     /\ outcome'.value = all_results ]_vars

\* C18: a request is made only for one of the first 3 pages; a request for
\* a further page follows only an OK answer with a token; an OK answer
\* without a token and a ZERO_RESULTS answer end the call, which returns
\* everything accumulated; after 3 pages the call ends with the results of
\* all three.
C18_PagingBounded ==
    [][ /\ fpc = "get" => page < 3
        /\ AnswerStep
             => /\ page' > page
                  => (data'.status = "OK" /\ data'.token /\ page' = page + 1)
                /\ (data'.status = "OK" /\ ~data'.token)
                  => /\ fpc' = "returned"
                     /\ outcome'.kind = "return"
                     /\ outcome'.value = all_results \o data'.results
                /\ data'.status = "ZERO_RESULTS"
                  => /\ fpc' = "returned"
                     /\ outcome'.kind = "return"
                     /\ outcome'.value = all_results
                /\ (data'.status = "OK" /\ data'.token /\ page = 2)
                  => /\ fpc' = "returned"
                     /\ outcome'.value = all_results \o data'.results ]_vars

\* three pages were read, the third still carried a token
C18_Witness ==
    /\ fpc = "returned"
    /\ outcome.cause = "pages"
    /\ Len(outcome.value) = 3
    /\ data.token

\* C19: the first attempt of a request with a token comes right after one
\* sleep of 2 s; an INVALID_REQUEST answer to the first request of a page
\* with a token is followed by one sleep of 2 s and one more request for
\* the same page; an INVALID_REQUEST answer to that request, or to a
\* request without a token, is followed by no further request.
C19_TokenDelayAndOneRetry ==
    [][ /\ (FirstAttempt /\ site = "first" /\ next_token)
             => slept = <<Sleep("token", 20)>>
        /\ (FirstAttempt /\ site = "first") => (next_token <=> page > 0)
        /\ (AnswerStep /\ data'.status = "INVALID_REQUEST")
             => IF site = "first" /\ next_token
                THEN /\ fpc' = "get"
                     /\ site' = "invalid_retry"
                     /\ page' = page
                     /\ next_token'
                     /\ slept' = <<Sleep("invalid", 20)>>
                ELSE fpc' # "get" ]_vars

\* the retry of a rejected token was rejected as well and the call ended
C19_Witness ==
    /\ fpc \in {"returned", "raised"}
    /\ page = 1
    /\ next_token
    /\ data.status = "INVALID_REQUEST"
    /\ Len(all_results) = 1

\* C20: the first request of every grid point but the first of a region
\* comes after exactly one sleep, the politeness delay of the script
\* (0.8 s, 0.2 s), whatever happened at the point before.
C20_PolitenessAlways ==
    (FirstAttempt /\ site = "first" /\ page = 0 /\ points_done > 0)
        => slept = <<Sleep("politeness", IF script = "plateau" THEN 8 ELSE 2)>>

\* ------------------------------------------------------------------------
\* The target count of a region
\* ------------------------------------------------------------------------
\* C21: in the 1000-per-city crawler the loop of a region ends only when
\* the grid is exhausted, however many places the region has, and the new
\* places of a point are all results with a place_id not seen before,
\* with none left out because the target was reached.
C21_TargetIsNoHardStop ==
    [][ script = "target"
          => /\ (pc = "crawl" /\ pc' \in {"start", "done"})
                  => points_done = GridLen
             /\ (fpc = "returned" /\ fpc' = "idle")
                  => new_places' = Dedup(outcome.value, seen, <<>>).new_places ]_vars

\* ------------------------------------------------------------------------
\* The grid
\* ------------------------------------------------------------------------
\* the points a box can hold at most, one per unit of latitude and longitude
Capacity(b) ==
    IF b.lat_min > b.lat_max \/ b.lng_min > b.lng_max THEN 0
    ELSE (b.lat_max - b.lat_min + 1) * (b.lng_max - b.lng_min + 1)

\* C22: every point the generator has yielded lies in the box, their
\* number is at most the box's capacity (none for a box with lat_min >
\* lat_max or lng_min > lng_max), and the second run on the same box and
\* step yields, point for point, what the first run yielded.
C22_GridInBoxFiniteSame ==
    /\ \A k \in 1..Len(emitted) :
          /\ bbox.lat_min <= emitted[k].lat /\ emitted[k].lat <= bbox.lat_max
          /\ bbox.lng_min <= emitted[k].lng /\ emitted[k].lng <= bbox.lng_max
    /\ Len(emitted) <= Capacity(bbox)
    /\ firstRun.done
          => /\ Len(emitted) <= Len(firstRun.points)
             /\ \A k \in 1..Len(emitted) : emitted[k] = firstRun.points[k]
    /\ gpc = "end" => emitted = firstRun.points

\* the second run has ended on a box of several rows whose last column
\* the step does not hit
C22_Witness ==
    /\ gpc = "end"
    /\ Len(emitted) >= 3
    /\ \E k \in 1..Len(emitted) : emitted[k].lat > bbox.lat_min
    /\ \A k \in 1..Len(emitted) : emitted[k].lng < bbox.lng_max

\* C23: the first point is (lat_min, lng_min); after a point comes either
\* the point of the same row one longitude step further, the step being
\* that of the row's latitude, or, when that point would lie beyond
\* lng_max, the point at lng_min of the row one latitude step higher.
C23_RowMajor ==
    /\ emitted # <<>>
          => emitted[1] = [lat |-> bbox.lat_min, lng |-> bbox.lng_min]
    /\ \A k \in 1..(Len(emitted) - 1) :
          LET p == emitted[k]
              q == emitted[k + 1]
              across == p.lng + step_m * (1 + Abs(p.lat))
          IN  IF across <= bbox.lng_max
              THEN q = [lat |-> p.lat, lng |-> across]
              ELSE q = [lat |-> p.lat + step_m, lng |-> bbox.lng_min]

\* two rows of more than one point each, with different longitude steps
C23_Witness ==
    /\ gpc = "end"
    /\ \E j, k \in 1..(Len(emitted) - 1) :
          /\ emitted[j].lat = emitted[j + 1].lat
          /\ emitted[k].lat = emitted[k + 1].lat
          /\ emitted[j].lat < emitted[k].lat
          /\ emitted[j + 1].lng - emitted[j].lng # emitted[k + 1].lng - emitted[k].lng

\* ------------------------------------------------------------------------
\* The end of a region and of the run
\* ------------------------------------------------------------------------
\* C24: the loop of a region is left only by a plateau stop or with the
\* grid exhausted, after which the next region starts or the run is done;
\* the crawl moves to the next region only then, and requests are made
\* only inside the loop of the region at hand.
C24_LoopEndsByPlateauOrGrid ==
    [][ /\ (pc = "crawl" /\ pc' # "crawl")
             => \/ pc' = "plateau"
                \/ points_done = GridLen /\ pc' \in {"start", "done"}
        /\ cityIdx' # cityIdx
             => /\ cityIdx' = cityIdx + 1
                /\ pc = "plateau" \/ points_done = GridLen
        /\ fpc' = "get" => pc' = "crawl" ]_vars

\* ------------------------------------------------------------------------
\* The backoff of safe_get
\* ------------------------------------------------------------------------
\* the base delays of the six attempts, in tenths of a second
BaseDelays == <<10, 20, 40, 80, 160, 300>>

\* C25: the sleep after the failure of attempt i (i = 0..5) of safe_get is
\* 1, 2, 4, 8, 16, 30 seconds plus less than a second; the bases do not
\* decrease and none is above 30 s; a step in which a request is answered
\* is followed by no backoff sleep.
C25_BackoffSchedule ==
    [][ script = "plateau"
          => /\ (fpc = "get" /\ attempts' = attempts + 1)
                  => /\ Len(slept') = 1
                     /\ slept'[1].why = "backoff"
                     /\ slept'[1].ds - BaseDelays[attempts + 1] \in 0..9
                     /\ BaseDelays[attempts + 1] <= 300
                     /\ attempts > 0
                          => BaseDelays[attempts] <= BaseDelays[attempts + 1]
             /\ AnswerStep
                  => \A k \in 1..Len(slept') : slept'[k].why # "backoff" ]_vars

\* the sixth attempt has failed and the capped delay was slept
C25_Witness ==
    /\ script = "plateau"
    /\ fpc = "raised"
    /\ attempts = 6
    /\ slept = <<Sleep("backoff", 309)>>

\* ------------------------------------------------------------------------
\* The earliest plateau
\* ------------------------------------------------------------------------
\* lines 279-304: the window refilled from point 80 is full at point 129, and
\* the fifth low window in a row is seen four points later
EarliestPlateau ==
    MIN_POINTS_BEFORE_PLATEAU + WINDOW - 1 + STABLE_WINDOWS - 1

\* C26: with warm-up 80, window 50 and stability count 5 no region is stopped
\* by plateau before its 133rd grid point, whatever the yields are, and a
\* region whose every point yields nothing new stops exactly at its 133rd.
C26_EarliestPlateauIs133 ==
    /\ EarliestPlateau = 133
    /\ pc = "plateau" => points_done >= EarliestPlateau
    /\ (feed.kind = "zeros" /\ pc = "plateau") => points_done = EarliestPlateau
    /\ (feed.kind = "zeros" /\ pc = "crawl" /\ GridLen >= EarliestPlateau)
         => points_done < EarliestPlateau

\* the second region of a run that finds nothing new has stopped at point 133
C26_Witness ==
    /\ feed.kind = "zeros"
    /\ cityIdx = 2
    /\ pc = "plateau"
    /\ points_done = 133

\* ------------------------------------------------------------------------
\* The crawl loop never takes the update branch
\* ------------------------------------------------------------------------
\* C27: at every grid point of the plateau crawler the places handed to
\* insert_places have place_ids that differ from each other, were not seen
\* before in this region of this run (seen only grows), and are not keys of
\* the region's city in the store; every row the store held before the point
\* is the same after it, fetched_at included, whatever the provider returned.
C27_InsertOnlyNewKeys ==
    [][ (pc = "crawl" /\ PointStep)
          => /\ \A i, j \in 1..Len(new_places') :
                  new_places'[i].place_id = new_places'[j].place_id => i = j
             /\ \A i \in 1..Len(new_places') :
                  /\ new_places'[i].place_id \notin seen
                  /\ new_places'[i].place_id \in seen'
                  /\ RowsAt(store, City, new_places'[i].place_id) = {}
             /\ seen \subseteq seen'
             /\ Len(store') = Len(store) + Len(new_places')
             /\ \A i \in 1..Len(store) : store'[i] = store[i] ]_vars

\* the provider has returned, with other data and at a later time, a place
\* whose row was in the store, and the row is as it was
C27_Witness ==
    /\ pc = "crawl"
    /\ points_done >= 1
    /\ \E k \in 1..Len(results) : \E i \in 1..Len(store) :
         /\ store[i].city = City
         /\ store[i].place_id = results[k].place_id
         /\ store[i].raw_json # results[k]
         /\ store[i].fetched_at < clock

\* ------------------------------------------------------------------------
\* Results without place_id
\* ------------------------------------------------------------------------
\* C28: in both crawl scripts a provider result whose place_id is missing or
\* empty is not written to the store, not added to seen and not among the
\* new places of its point; every row of the store has a place_id.
C28_MissingIdDropped ==
    /\ 0 \notin seen
    /\ \A i \in 1..Len(new_places) : new_places[i].place_id # 0
    /\ \A i \in 1..Len(store) : store[i].place_id # 0
    /\ Len(new_places) <= Cardinality(IdsOf(results))

\* the 1000-per-city crawler has processed a point whose results held a
\* place without place_id next to a new one, and wrote the new one
C28_Witness ==
    /\ script = "target"
    /\ fpc = "idle"
    /\ points_done >= 1
    /\ \E k \in 1..Len(results) : results[k].place_id = 0
    /\ new_places # <<>>
    /\ \E i \in 1..Len(store) : store[i].raw_json = new_places[1]

\* ------------------------------------------------------------------------
\* The detector starts afresh in every region
\* ------------------------------------------------------------------------
\* the yield of the i-th grid point of a region under a feed that does not
\* depend on what was found before
YieldAt(i) ==
    IF feed.kind = "every" /\ i % feed.period = 0 THEN feed.k ELSE 0

\* the detector in state st run over the yields of the region's points up
\* to the n-th (by halves, to keep the evaluation shallow)
RECURSIVE Replay(_, _)
Replay(n, st) ==
    IF st.points_done >= n THEN st
    ELSE IF st.points_done + 1 = n
         THEN Observe(st.recent, st.stable_hits, st.points_done, YieldAt(n))
         ELSE Replay(n, Replay((st.points_done + n) \div 2, st))

RegionStart ==
    [recent |-> <<>>, stable_hits |-> 0, points_done |-> 0, stop |-> FALSE]

\* C29: the step that starts a region leaves the yield window empty,
\* stable_hits 0 and points_done 0 and takes seen from the rows the store
\* holds for the city, whether the region before it ended by plateau or at
\* the end of its grid; in every region the window, stable_hits and the
\* plateau decision are those of a detector that saw the yields of this
\* region's points only.
C29_RegionStartsAfresh ==
    /\ [][ (pc = "start" /\ pc' = "crawl")
             => /\ recent' = <<>>
                /\ stable_hits' = 0
                /\ points_done' = 0
                /\ seen' = { store[i].place_id : i \in RowsOfCity(store, City) }
                /\ store' = store ]_vars
    /\ []( (feed.kind \in {"zeros", "every"} /\ pc \in {"crawl", "plateau"})
             => LET o == Replay(points_done, RegionStart)
                IN  /\ recent = o.recent
                    /\ stable_hits = o.stable_hits
                    /\ (pc = "plateau") = o.stop )

\* the region before ended by plateau with a full window and five hits, and
\* the second region has its first yield alone in the window
C29_Witness ==
    /\ feed.kind = "zeros"
    /\ cityIdx = 2
    /\ pc = "crawl"
    /\ points_done = 1
    /\ recent = <<0>>
    /\ stable_hits = 0

\* ------------------------------------------------------------------------
\* fill_zip: the retries of a row and the counters
\* ------------------------------------------------------------------------
\* C30: a row is fetched at most MAX_RETRIES + 1 times, rate-limit answers
\* and network failures counted by the one retry counter; the step that
\* leaves a row's retry loop adds one to exactly one of updated and skipped,
\* unless it is the exit with status 2, which is taken only when
\* OVER_QUERY_LIMIT brought retry above MAX_RETRIES; when main completes,
\* updated + skipped is the number of selected rows.
C30_RetriesBoundedCountersAddUp ==
    /\ []( /\ fetches <= MAX_RETRIES + 1
           /\ zpc = "fetch" => (fetches = retry /\ updated + skipped = rowIdx - 1)
           /\ zpc = "loop" => updated + skipped = rowIdx
           /\ zpc = "done" => updated + skipped = total
           /\ zpc = "exit2" => (retry = MAX_RETRIES + 1 /\ over_limit_hits >= 1) )
    /\ [][ (zpc = "fetch" /\ zpc' # "fetch")
             => \/ /\ zpc' = "loop"
                   /\ \/ updated' = updated + 1 /\ skipped' = skipped
                      \/ updated' = updated /\ skipped' = skipped + 1
                \/ /\ zpc' = "exit2"
                   /\ over_limit_hits' = over_limit_hits + 1
                   /\ updated' = updated /\ skipped' = skipped ]_vars

\* main has completed; its last row was given up at the seventh fetch after
\* rate-limit answers and network failures, an earlier row was updated
C30_Witness ==
    /\ zpc = "done"
    /\ total = 2
    /\ fetches = MAX_RETRIES + 1
    /\ over_limit_hits >= 1
    /\ updated = 1
    /\ skipped = 1

====
